---- MODULE Spec2Model ----
(***************************************************************************)
(* Character-level order-k Markov chain engine (mini_ai/markov.py).        *)
(*                                                                         *)
(* A Python str is a sequence of one-character strings.  A Python dict is  *)
(* a sequence of <<key, value>> pairs in insertion order, which is the     *)
(* order list(d.keys()) and d.items() iterate in.  An Optional argument is *)
(* <<>> for None and <<x>> for the value x.                                *)
(***************************************************************************)
EXTENDS Integers, Sequences, FiniteSets, TLC

VARIABLES order, transitions, trained, rng, call, ret, data, loaded, contexts, cli, startend,
          server, thread

vars == <<order, transitions, trained, rng, call, ret, data, loaded, contexts, cli, startend, server, thread>>

(* the model m, the generator and the last call *)
inside == <<order, transitions, trained, rng, call, ret, data, loaded>>

(* what the operations of the model m never touch *)
outside == <<contexts, cli, startend, server, thread>>

(***************************************************************************)
(* Bounds of the model.                                                    *)
(***************************************************************************)
MaxOrder == 2
MaxTextLen == 3
MaxTrains == 2
MaxGenLen == 3

TrainAlphabet == {"a", "b"}
ExampleText == <<"a", "b", "c", "d">>
Chars == TrainAlphabet \cup {"c", "d"}

StringsOver(alphabet, n) == UNION {[1..m -> alphabet] : m \in 0..n}

Texts == StringsOver(TrainAlphabet, MaxTextLen) \cup {ExampleText}
Orders == (-1)..MaxOrder
Lengths == 0..MaxGenLen

None == <<>>
Some(x) == <<x>>

Seeds == {None} \cup {Some(s) : s \in StringsOver(TrainAlphabet, MaxOrder)}
RandomSeeds == {None, Some(0), Some(1)}

(***************************************************************************)
(* dict                                                                    *)
(***************************************************************************)
Keys(d) == [i \in 1..Len(d) |-> d[i][1]]
Values(d) == [i \in 1..Len(d) |-> d[i][2]]
Has(d, k) == \E i \in 1..Len(d) : d[i][1] = k
Get(d, k, default) == IF Has(d, k) THEN d[CHOOSE i \in 1..Len(d) : d[i][1] = k][2] ELSE default
Put(d, k, v) == IF Has(d, k) THEN [i \in 1..Len(d) |-> IF d[i][1] = k THEN <<k, v>> ELSE d[i]] ELSE Append(d, <<k, v>>)

RECURSIVE sum(_)
sum(s) == IF Len(s) = 0 THEN 0 ELSE s[1] + sum(SubSeq(s, 2, Len(s)))

(***************************************************************************)
(* The process-wide generator of the random module.  Its state is the      *)
(* stream of raw words it will produce, kept as a cyclic tape; at import   *)
(* the state comes from operating-system entropy, so any tape is possible. *)
(* random.seed(a) puts the generator in a state that depends on a alone.   *)
(***************************************************************************)
RawWords == {0, 1}
RngStates == [1..3 -> RawWords]
random_seed_state(a) == [i \in 1..3 |-> (a + i) % Cardinality(RawWords)]
raw(g) == g[1]
advance(g) == SubSeq(g, 2, Len(g)) \o <<g[1]>>
randbelow(g, n) == raw(g) % n
randint(g, a, b) == a + randbelow(g, b - a + 1)

(***************************************************************************)
(* MarkovChain.train                                                       *)
(***************************************************************************)
(* train with the loop bound one short: range(len(text) - self.order - 1) *)
RECURSIVE train_loop_short(_, _, _, _)
train_loop_short(tr, k, text, i) ==
  IF i >= Len(text) - k - 1 THEN tr
  ELSE LET context == SubSeq(text, i + 1, i + k)
           next_char == text[i + k + 1]
           t1 == IF ~Has(tr, context) THEN Put(tr, context, <<>>) ELSE tr
           inner == Get(t1, context, <<>>)
           inner1 == IF ~Has(inner, next_char) THEN Put(inner, next_char, 0) ELSE inner
           inner2 == Put(inner1, next_char, Get(inner1, next_char, 0) + 1)
       IN train_loop_short(Put(t1, context, inner2), k, text, i + 1)

(* train with the context sliced one character late: text[i+1:i+self.order] *)
RECURSIVE train_loop_slice(_, _, _, _)
train_loop_slice(tr, k, text, i) ==
  IF i >= Len(text) - k THEN tr
  ELSE LET context == SubSeq(text, i + 2, i + k)
           next_char == text[i + k + 1]
           t1 == IF ~Has(tr, context) THEN Put(tr, context, <<>>) ELSE tr
           inner == Get(t1, context, <<>>)
           inner1 == IF ~Has(inner, next_char) THEN Put(inner, next_char, 0) ELSE inner
           inner2 == Put(inner1, next_char, Get(inner1, next_char, 0) + 1)
       IN train_loop_slice(Put(t1, context, inner2), k, text, i + 1)

(* train that also enters the last window of the text, which has no next   *)
(* character: range(len(text) - self.order + 1) with the count guarded     *)
RECURSIVE train_loop_trailing(_, _, _, _)
train_loop_trailing(tr, k, text, i) ==
  IF i > Len(text) - k THEN tr
  ELSE LET context == SubSeq(text, i + 1, i + k)
           t1 == IF ~Has(tr, context) THEN Put(tr, context, <<>>) ELSE tr
       IN IF i = Len(text) - k THEN train_loop_trailing(t1, k, text, i + 1)
          ELSE LET next_char == text[i + k + 1]
                   inner == Get(t1, context, <<>>)
                   inner1 == IF ~Has(inner, next_char) THEN Put(inner, next_char, 0) ELSE inner
                   inner2 == Put(inner1, next_char, Get(inner1, next_char, 0) + 1)
               IN train_loop_trailing(Put(t1, context, inner2), k, text, i + 1)

RECURSIVE train_loop(_, _, _, _)
train_loop(tr, k, text, i) ==
  IF i >= Len(text) - k THEN tr
  ELSE LET context == SubSeq(text, i + 1, i + k)
           next_char == text[i + k + 1]
           t1 == IF ~Has(tr, context) THEN Put(tr, context, <<>>) ELSE tr
           inner == Get(t1, context, <<>>)
           inner1 == IF ~Has(inner, next_char) THEN Put(inner, next_char, 0) ELSE inner
           inner2 == Put(inner1, next_char, Get(inner1, next_char, 0) + 1)
       IN train_loop(Put(t1, context, inner2), k, text, i + 1)

(* train that starts from an empty table: self.transitions = {} *)
train_result_reset(tr, k, text) == train_loop(<<>>, k, text, 0)

train_result(tr, k, text) == train_loop(tr, k, text, 0)

(***************************************************************************)
(* MarkovChain.generate of run_1768561810934                               *)
(***************************************************************************)
(* what a call leaves behind: the value returned or the exception raised,  *)
(* the generator, and the table of the model it ran on                     *)
ok(tr, out, start, g) == [status |-> "ok", out |-> out, start |-> start, rng |-> g, transitions |-> tr]
raise(tr, error, g) == [status |-> error, out |-> <<>>, start |-> <<>>, rng |-> g, transitions |-> tr]

(* a lookup that inserts the missing context, as a defaultdict would *)
transitions_get_default(tr, context) ==
  IF Has(tr, context) THEN <<Get(tr, context, <<>>), tr>> ELSE <<<<>>, Put(tr, context, <<>>)>>

(* self.transitions.get(context, {}): <<the value found, the table after the lookup>> *)
transitions_get(tr, context) == <<Get(tr, context, <<>>), tr>>

(* seeding on the truth value: if random_seed: random.seed(random_seed) *)
seed_generator_truthy(random_seed, g) ==
  IF random_seed # None /\ random_seed[1] # 0 THEN random_seed_state(random_seed[1]) ELSE g

(* if random_seed is not None: random.seed(random_seed) *)
seed_generator(random_seed, g) == IF random_seed # None THEN random_seed_state(random_seed[1]) ELSE g

(* random.choice(seq); an empty seq raises IndexError *)
choice(g, seq) == seq[randbelow(g, Len(seq)) + 1]

(* the seed taken only when longer than the order: len(seed) > self.order *)
initial_context_longer(tr, k, seed, g) ==
  IF seed # None /\ Len(seed[1]) > k
  THEN <<seed[1], g>>
  ELSE IF Len(tr) = 0 THEN <<>> ELSE <<choice(g, Keys(tr)), advance(g)>>

(* the selection of the starting context: <<context, generator>>, or <<>>  *)
(* when random.choice raises                                               *)
initial_context(tr, k, seed, g) ==
  IF seed # None /\ Len(seed[1]) = k
  THEN <<seed[1], g>>
  ELSE IF Len(tr) = 0 THEN <<>> ELSE <<choice(g, Keys(tr)), advance(g)>>

(* the comparison strict: if rand_val < cumulative_count *)
RECURSIVE select_strict(_, _, _, _)
select_strict(next_char_options, rand_val, j, cumulative_count) ==
  IF j > Len(next_char_options) THEN 0
  ELSE LET cumulative == cumulative_count + next_char_options[j][2]
       IN IF rand_val < cumulative THEN j
          ELSE select_strict(next_char_options, rand_val, j + 1, cumulative)

(* the inner for loop over next_char_options.items(): the index of the     *)
(* item whose cumulative count first reaches rand_val, 0 when none does    *)
RECURSIVE select(_, _, _, _)
select(next_char_options, rand_val, j, cumulative_count) ==
  IF j > Len(next_char_options) THEN 0
  ELSE LET cumulative == cumulative_count + next_char_options[j][2]
       IN IF rand_val <= cumulative THEN j
          ELSE select(next_char_options, rand_val, j + 1, cumulative)

(* the walk restarting from a random key at a dead end instead of stopping *)
RECURSIVE walk_restart(_, _, _, _, _, _)
walk_restart(tr0, context, result, start, g, n) ==
  IF n <= 0 THEN ok(tr0, result, start, g)
  ELSE LET found == transitions_get(tr0, context)
           next_char_options == found[1]
           tr == found[2]
       IN IF Len(next_char_options) = 0
          THEN IF Len(tr) = 0 THEN ok(tr, result, start, g)
               ELSE LET fresh == choice(g, Keys(tr))
                    IN walk_restart(tr, fresh, Append(result, fresh[1]), start, advance(g), n - 1)
          ELSE LET total_count == sum(Values(next_char_options))
               IN IF total_count < 1 THEN raise(tr, "ValueError", g)
                  ELSE LET rand_val == randint(g, 1, total_count)
                           j == select(next_char_options, rand_val, 1, 0)
                       IN IF j = 0
                          THEN walk_restart(tr, context, result, start, advance(g), n - 1)
                          ELSE LET next_char == next_char_options[j][1]
                               IN walk_restart(tr, SubSeq(context, 2, Len(context)) \o <<next_char>>,
                                               Append(result, next_char), start, advance(g), n - 1)

(* the walk that never advances the context: context = context[1:] + next_char left out *)
RECURSIVE walk_stale(_, _, _, _, _, _)
walk_stale(tr0, context, result, start, g, n) ==
  IF n <= 0 THEN ok(tr0, result, start, g)
  ELSE LET found == transitions_get(tr0, context)
           next_char_options == found[1]
           tr == found[2]
       IN IF Len(next_char_options) = 0 THEN ok(tr, result, start, g)
          ELSE LET total_count == sum(Values(next_char_options))
               IN IF total_count < 1 THEN raise(tr, "ValueError", g)
                  ELSE LET rand_val == randint(g, 1, total_count)
                           j == select(next_char_options, rand_val, 1, 0)
                       IN IF j = 0
                          THEN walk_stale(tr, context, result, start, advance(g), n - 1)
                          ELSE walk_stale(tr, context, Append(result, next_char_options[j][1]),
                                          start, advance(g), n - 1)

(* the for loop of generate, with n iterations left *)
RECURSIVE walk(_, _, _, _, _, _)
walk(tr0, context, result, start, g, n) ==
  IF n <= 0 THEN ok(tr0, result, start, g)
  ELSE LET found == transitions_get(tr0, context)
           next_char_options == found[1]
           tr == found[2]
       IN IF Len(next_char_options) = 0 THEN ok(tr, result, start, g)
          ELSE LET total_count == sum(Values(next_char_options))
               IN IF total_count < 1 THEN raise(tr, "ValueError", g)
                  ELSE LET rand_val == randint(g, 1, total_count)
                           j == select(next_char_options, rand_val, 1, 0)
                       IN IF j = 0
                          THEN walk(tr, context, result, start, advance(g), n - 1)
                          ELSE LET next_char == next_char_options[j][1]
                               IN walk(tr, SubSeq(context, 2, Len(context)) \o <<next_char>>,
                                       Append(result, next_char), start, advance(g), n - 1)

generate_result(tr, k, length, seed, random_seed, g) ==
  LET g1 == seed_generator(random_seed, g)
      ic == initial_context(tr, k, seed, g1)
  IN IF ic = <<>> THEN raise(tr, "IndexError", g1)
     ELSE walk(tr, ic[1], ic[1], ic[1], ic[2], length - k)

(***************************************************************************)
(* MarkovChain.generate of run_1768562193727                               *)
(***************************************************************************)
initial_context_v2(tr, k, seed, g) ==
  IF seed = None \/ Len(seed[1]) < k \/ ~Has(tr, seed[1])
  THEN IF Len(tr) = 0 THEN <<>> ELSE <<choice(g, Keys(tr)), advance(g)>>
  ELSE <<SubSeq(seed[1], 1, k), g>>

(* random.choices(population, weights)[0]: bisect of the cumulative weights *)
(* at random() * total, with random() = raw / |RawWords|; 0 when the total   *)
(* of the weights is not positive (ValueError)                             *)
choices(g, next_chars) ==
  LET n == Len(next_chars)
      cum(i) == sum(SubSeq(Values(next_chars), 1, i))
      total == cum(n)
      hits == {i \in 1..(n - 1) : cum(i) * Cardinality(RawWords) > raw(g) * total}
  IN IF total <= 0 THEN 0
     ELSE IF hits = {} THEN n ELSE CHOOSE i \in hits : \A h \in hits : i <= h

RECURSIVE walk_v2(_, _, _, _, _, _, _)
walk_v2(tr0, k, context, result, start, g, n) ==
  IF n <= 0 THEN ok(tr0, result, start, g)
  ELSE LET found == transitions_get(tr0, context)
           next_chars == found[1]
           tr == found[2]
       IN IF Len(next_chars) = 0 THEN ok(tr, result, start, g)
          ELSE LET j == choices(g, next_chars)
               IN IF j = 0 THEN raise(tr, "ValueError", g)
                  ELSE LET result1 == Append(result, next_chars[j][1])
                           lo == IF Len(result1) > k THEN Len(result1) - k + 1 ELSE 1
                       IN walk_v2(tr, k, SubSeq(result1, lo, Len(result1)), result1,
                                  start, advance(g), n - 1)

generate_v2_result(tr, k, length, seed, random_seed, g) ==
  LET g1 == seed_generator(random_seed, g)
      ic == initial_context_v2(tr, k, seed, g1)
  IN IF ic = <<>> THEN raise(tr, "IndexError", g1)
     ELSE walk_v2(tr, k, ic[1], ic[1], ic[1], ic[2], length - k)

(***************************************************************************)
(* MarkovChain.generate of batch_1770643297744 run_01.  Line 24, the       *)
(* choice of a start when no seed is given, is not an expression of the    *)
(* language; the call is modelled for a seed that is given.                *)
(***************************************************************************)
max(a, b) == IF a >= b THEN a ELSE b

(* the slice s[start:] *)
slice_from(s, start) ==
  IF start < 0 THEN SubSeq(s, max(Len(s) + start, 0) + 1, Len(s))
  ELSE SubSeq(s, start + 1, Len(s))

(* context = context[-self.order + 1:] + next_char *)
advance_context(k, context, next_char) == slice_from(context, (-k) + 1) \o <<next_char>>

(* the while loop of generate; seen collects the values of context *)
RECURSIVE walk_batch(_, _, _, _, _, _, _, _)
walk_batch(tr, k, context, result, start, seen, g, length) ==
  IF Len(result) >= length THEN [r |-> ok(tr, result, start, g), contexts |-> seen]
  ELSE IF ~Has(tr, context) \/ sum(Values(Get(tr, context, <<>>))) = 0
       THEN [r |-> ok(tr, result, start, g), contexts |-> seen]
       ELSE LET j == choices(g, Get(tr, context, <<>>))
                next_char == Get(tr, context, <<>>)[j][1]
                context1 == advance_context(k, context, next_char)
            IN IF j = 0 THEN [r |-> raise(tr, "ValueError", g), contexts |-> seen]
               ELSE walk_batch(tr, k, context1, Append(result, next_char), start,
                               Append(seen, context1), advance(g), length)

generate_batch_result(tr, k, length, seed, random_seed, g) ==
  LET g1 == seed_generator(random_seed, g)
  IN walk_batch(tr, k, seed[1], <<>>, seed[1], <<seed[1]>>, g1, length)

(***************************************************************************)
(* MarkovChain.generate of release_gate_after_best_patch run_09            *)
(***************************************************************************)
(* the for loop of generate, with n iterations left; self.transitions[context] *)
(* raises KeyError for a context that is no key                            *)
RECURSIVE walk_gate(_, _, _, _, _, _, _)
walk_gate(tr, k, context, result, start, g, n) ==
  IF n <= 0 THEN ok(tr, result, start, g)
  ELSE IF ~Has(tr, context) THEN raise(tr, "KeyError", g)
       ELSE LET j == choices(g, Get(tr, context, <<>>))
                result1 == Append(result, Get(tr, context, <<>>)[j][1])
            IN IF j = 0 THEN raise(tr, "ValueError", g)
               ELSE walk_gate(tr, k, slice_from(result1, -k), result1, start, advance(g), n - 1)

generate_gate_result(tr, k, length, seed, random_seed, g) ==
  LET g1 == seed_generator(random_seed, g)
      ic == initial_context(tr, k, seed, g1)
  IN IF ic = <<>> THEN raise(tr, "IndexError", g1)
     ELSE walk_gate(tr, k, ic[1], ic[1], ic[1], ic[2], length - k)

(***************************************************************************)
(* MarkovChain of debug_schema_first_all_sanity: the end of a text is      *)
(* recorded as the continuation '' of its last context                     *)
(***************************************************************************)
Terminator == ""

(* train without the part after the loop *)
train_sentinel_result_no_end(tr, k, text) == train_loop(tr, k, text, 0)

(* train: the loop, then the count of '' after text[-self.order:] *)
train_sentinel_result(tr, k, text) ==
  LET tr1 == train_loop(tr, k, text, 0)
      context == slice_from(text, -k)
      tr2 == IF Has(tr1, context) THEN tr1 ELSE Put(tr1, context, <<>>)
      inner == Get(tr2, context, <<>>)
  IN Put(tr2, context, Put(inner, Terminator, Get(inner, Terminator, 0) + 1))

initial_context_sentinel(tr, k, seed, g) ==
  IF seed = None \/ Len(seed[1]) < k
  THEN IF Len(tr) = 0 THEN <<>> ELSE <<choice(g, Keys(tr)), advance(g)>>
  ELSE <<IF Len(seed[1]) > k THEN slice_from(seed[1], -k) ELSE seed[1], g>>

(* the for loop of generate, with n iterations left; seen collects the     *)
(* contexts looked up in the table                                         *)
RECURSIVE walk_sentinel(_, _, _, _, _, _, _, _)
walk_sentinel(tr, k, context, result, start, seen, g, n) ==
  IF n <= 0 THEN [r |-> ok(tr, result, start, g), contexts |-> seen]
  ELSE IF ~Has(tr, context) THEN [r |-> raise(tr, "KeyError", g), contexts |-> Append(seen, context)]
       ELSE LET j == choices(g, Get(tr, context, <<>>))
                next_char == Get(tr, context, <<>>)[j][1]
                result1 == Append(result, next_char)
            IN IF j = 0 THEN [r |-> raise(tr, "ValueError", g), contexts |-> Append(seen, context)]
               ELSE IF next_char = Terminator
                    THEN [r |-> ok(tr, result, start, advance(g)), contexts |-> Append(seen, context)]
                    ELSE walk_sentinel(tr, k, slice_from(result1, -k), result1, start,
                                       Append(seen, context), advance(g), n - 1)

generate_sentinel_result(tr, k, length, seed, random_seed, g) ==
  LET g1 == seed_generator(random_seed, g)
      ic == initial_context_sentinel(tr, k, seed, g1)
  IN IF ic = <<>> THEN [r |-> raise(tr, "IndexError", g1), contexts |-> <<>>]
     ELSE walk_sentinel(tr, k, ic[1], ic[1], ic[1], <<>>, ic[2], length - k)

(***************************************************************************)
(* MarkovChain.to_dict and MarkovChain.from_dict.  A value of the          *)
(* structured form carries its type; a dict object is named by who holds   *)
(* it: TableOfM is the dict that __init__ created for the model m (the     *)
(* variable transitions), PyDict(tbl) a dict of the caller's.                *)
(***************************************************************************)
PyInt(n) == <<"int", n>>
PyStr(x) == <<"str", x>>
PyFloat(halves) == <<"float", halves>>
PyList == <<"list">>
PyDict(tbl) == <<"dict", tbl>>
TableOfM == <<"ref", "m.transitions">>

(* the model m as the self of a method *)
self_m == [order |-> PyInt(order), transitions |-> TableOfM]

to_dict_result(self) == << <<"order", self.order>>, <<"transitions", self.transitions>> >>

(* order <= 0 in __init__: "TypeError" when the order does not compare     *)
(* with 0, "ValueError" when it is not positive, "ok" otherwise            *)
init_check(o) ==
  IF o[1] = "str" THEN "TypeError"
  ELSE IF o[2] <= 0 THEN "ValueError" ELSE "ok"

(* from_dict leaving out mc.transitions = d['transitions'] *)
from_dict_result_fresh(d) ==
  IF ~Has(d, "order") THEN [status |-> "KeyError", model |-> None]
  ELSE IF init_check(Get(d, "order", None)) # "ok"
       THEN [status |-> init_check(Get(d, "order", None)), model |-> None]
       ELSE [status |-> "ok", model |-> Some([order |-> Get(d, "order", None), transitions |-> PyDict(<<>>)])]

(* from_dict rebuilding the table with its keys in the opposite order *)
from_dict_result_reversed(d) ==
  IF ~Has(d, "order") THEN [status |-> "KeyError", model |-> None]
  ELSE IF init_check(Get(d, "order", None)) # "ok"
       THEN [status |-> init_check(Get(d, "order", None)), model |-> None]
       ELSE IF ~Has(d, "transitions") THEN [status |-> "KeyError", model |-> None]
            ELSE LET w == Get(d, "transitions", None)
                     tbl == IF w[1] = "ref" THEN transitions ELSE IF w[1] = "dict" THEN w[2] ELSE <<>>
                 IN [status |-> "ok",
                     model |-> Some([order |-> Get(d, "order", None),
                                     transitions |-> PyDict([i \in 1..Len(tbl) |-> tbl[Len(tbl) + 1 - i]])])]

(* mc = cls(order=d['order']); mc.transitions = d['transitions']; return mc *)
from_dict_result(d) ==
  IF ~Has(d, "order") THEN [status |-> "KeyError", model |-> None]
  ELSE IF init_check(Get(d, "order", None)) # "ok"
       THEN [status |-> init_check(Get(d, "order", None)), model |-> None]
       ELSE IF ~Has(d, "transitions") THEN [status |-> "KeyError", model |-> None]
            ELSE [status |-> "ok",
                  model |-> Some([order |-> Get(d, "order", None), transitions |-> Get(d, "transitions", None)])]

(* from_dict of batch_1770643297744 run_01:                                *)
(* mc = cls(); mc.order = d['order']; mc.transitions = d['transitions']    *)
from_dict_batch_result(d) ==
  IF init_check(PyInt(1)) # "ok" THEN [status |-> init_check(PyInt(1)), model |-> None]
  ELSE IF ~Has(d, "order") \/ ~Has(d, "transitions") THEN [status |-> "KeyError", model |-> None]
  ELSE [status |-> "ok",
        model |-> Some([order |-> Get(d, "order", None), transitions |-> Get(d, "transitions", None)])]

(* the dict a reference stands for *)
Deref(w) == IF w[1] = "ref" THEN transitions ELSE IF w[1] = "dict" THEN w[2] ELSE <<>>

(* structured forms that no to_dict produced: read from a file by the caller *)
ForeignTable == << <<<<"a">>, << <<"b", 1>> >> >> >>
ForeignData ==
  { << <<"order", PyInt(1)>>, <<"transitions", PyDict(ForeignTable)>> >>,
    << <<"order", PyInt(0)>>, <<"transitions", PyDict(ForeignTable)>> >>,
    << <<"transitions", PyDict(ForeignTable)>> >>,
    << <<"order", PyStr("1")>>, <<"transitions", PyDict(ForeignTable)>> >>,
    << <<"order", PyFloat(3)>>, <<"transitions", PyDict(ForeignTable)>> >>,
    << <<"order", PyInt(1)>> >>,
    << <<"order", PyInt(1)>>, <<"transitions", PyList>> >> }

(***************************************************************************)
(* The train command of mini_ai/cli.py (batch_1770635317539 run_01): one   *)
(* run of main, a step for each statement that can fail or that touches a  *)
(* file.  A file is None when absent, else Some(content).                  *)
(***************************************************************************)
(* a corpus that is not utf-8, and a model file left by something else: an  *)
(* order and a table that no run of the command writes                     *)
Undecodable == <<"\\xff">>
OldModel == <<0, <<>>>>
InputFiles == {None, Some(Undecodable)} \cup {Some(t) : t \in Texts}
ModelFiles == {None, Some(OldModel)}

NoCommand ==
  [pc |-> "shell", order |-> 0, input |-> None, model_out |-> None, before |-> None,
   text |-> <<>>, mc |-> None, exit |-> "none"]

(***************************************************************************)
(* MarkovChain of run_1768553595715: a chain from each word to the list of *)
(* the words that followed it, between the markers START and END.  text is *)
(* kept as its characters.                                                 *)
(***************************************************************************)
START == "START"
END == "END"

(* the characters of a word *)
list(word) ==
  IF word = START THEN <<"S", "T", "A", "R", "T">>
  ELSE IF word = END THEN <<"E", "N", "D">>
  ELSE <<word>>

(* the for loop of add_text from index i *)
RECURSIVE add_text_loop(_, _, _)
add_text_loop(chain, words, i) ==
  IF i > Len(words) - 1 THEN chain
  ELSE add_text_loop(Put(chain, words[i], Append(Get(chain, words[i], <<>>), words[i + 1])), words, i + 1)

add_text_result(chain, text) == add_text_loop(chain, <<START>> \o text \o <<END>>, 1)

(* self.chain after __init__, no call of generate_text running *)
NoChain ==
  [chain |-> <<>>, added |-> 0, pc |-> "idle", length |-> 0, text |-> <<>>,
   current_word |-> "", result |-> <<>>, error |-> "none"]

(***************************************************************************)
(* scripts/airllm_server.py: the module globals (server) and the request   *)
(* threads of app.run(threaded=True), each at a line of load_model,        *)
(* generate_response or the stream generator of its route.  A text is the  *)
(* sequence of its characters.                                             *)
(***************************************************************************)
Threads == {"t1", "t2"}

(* the attributes the load body sets after config["loaded"] = True, in the *)
(* order of lines 111-365; an except clause passes over a patch that       *)
(* raises, here each step installs its patch                               *)
Patches ==
  <<"_is_stateful", "use_cache", "prepare_inputs_for_generation",
    "get_past_key_values_cache_seq_len", "get_pos_emb_args", "apply_rotary_pos_emb",
    "get_sequence_len", "init_model">>

NotLoaded ==
  [loaded |-> FALSE, airllm_model |-> None, airllm_tokenizer |-> None, patches |-> <<>>,
   model_lock |-> None, loads |-> 0]

LoadCounts == 0..2

Idle ==
  [pc |-> "idle", route |-> "", stream |-> FALSE, load_model |-> "none", patched |-> <<>>,
   response |-> <<>>, words |-> <<>>, i |-> 0, records |-> <<>>, status |-> 0]

(* the lines of load_model inside with model_lock *)
LoadBody == {"line70", "from_pretrained", "line108", "line109", "patch", "line383", "line387"}

(* the two error texts of generate_response, their letters without accents *)
NotLoadedText == <<"[", "C", "h", "y", "b", "a", ":", " ", "M", "o", "d", "e", "l", " ", "n", "e", "n", "i", " ", "n", "a", "c", "t", "e", "n", "]">>
GenerationErrorText == <<"[", "C", "h", "y", "b", "a", " ", "g", "e", "n", "e", "r", "o", "v", "a", "n", "i", ":", " ", "e", "]">>

(* what the decoded output of airllm_model.generate can be, the prompt removed *)
Outputs == {<<>>, <<" ">>, <<"a">>, <<"a", " ", " ", "b">>}

(* str.split(): the maximal runs of characters that are not whitespace *)
RECURSIVE split_loop(_, _, _, _)
split_loop(text, i, word, words) ==
  IF i > Len(text) THEN (IF Len(word) > 0 THEN Append(words, word) ELSE words)
  ELSE IF text[i] = " "
       THEN split_loop(text, i + 1, <<>>, IF Len(word) > 0 THEN Append(words, word) ELSE words)
       ELSE split_loop(text, i + 1, Append(word, text[i]), words)

split(text) == split_loop(text, 1, <<>>, <<>>)

(* word + (" " if i < len(words) - 1 else ""), i counted from 0 *)
chunk(words, i) == words[i + 1] \o (IF i < Len(words) - 1 THEN <<" ">> ELSE <<>>)

(***************************************************************************)
(* The operations                                                          *)
(***************************************************************************)
(* call and ret record the last call of the run and what it returned; a    *)
(* generate call that is not the last one of the run leaves its effect on  *)
(* the generator and is not recorded (observed = FALSE)                    *)
NoCall == [op |-> "none", impl |-> "", observed |-> FALSE, order |-> 0, text |-> <<>>, length |-> 0, seed |-> None, random_seed |-> None]
NoRet == [status |-> "none", out |-> <<>>, start |-> <<>>]

Init ==
  /\ order = 0
  /\ transitions = <<>>
  /\ trained = <<>>
  /\ rng \in RngStates
  /\ call = NoCall
  /\ ret = NoRet
  /\ data = None
  /\ loaded = None
  /\ contexts = <<>>
  /\ cli = NoCommand
  /\ startend = NoChain
  /\ server = NotLoaded
  /\ thread = [t \in Threads |-> Idle]

(* __init__ rejecting only the negative orders: if order < 0 *)
construct_lax ==
  \E o \in Orders :
    /\ order = 0
    /\ call' = [NoCall EXCEPT !.op = "construct", !.observed = TRUE, !.order = o]
    /\ IF o < 0
       THEN /\ ret' = [NoRet EXCEPT !.status = "ValueError"]
            /\ UNCHANGED <<order, transitions, trained>>
       ELSE /\ ret' = [NoRet EXCEPT !.status = "ok"]
            /\ order' = o
            /\ transitions' = <<>>
            /\ trained' = <<>>
    /\ UNCHANGED <<rng, data, loaded, outside>>

(* MarkovChain.__init__ *)
construct ==
  \E o \in Orders :
    /\ order = 0
    /\ call' = [NoCall EXCEPT !.op = "construct", !.observed = TRUE, !.order = o]
    /\ IF o <= 0
       THEN /\ ret' = [NoRet EXCEPT !.status = "ValueError"]
            /\ UNCHANGED <<order, transitions, trained>>
       ELSE /\ ret' = [NoRet EXCEPT !.status = "ok"]
            /\ order' = o
            /\ transitions' = <<>>
            /\ trained' = <<>>
    /\ UNCHANGED <<rng, data, loaded, outside>>

train ==
  \E text \in Texts :
    /\ order >= 1
    /\ Len(trained) < MaxTrains
    /\ transitions' = train_result(transitions, order, text)
    /\ trained' = Append(trained, text)
    /\ call' = [NoCall EXCEPT !.op = "train", !.observed = TRUE, !.text = text]
    /\ ret' = [NoRet EXCEPT !.status = "ok"]
    /\ UNCHANGED <<order, rng, data, loaded, outside>>

(* the first train call on a model *)
train_first == Len(trained) = 0 /\ train

returned(r) == [status |-> r.status, out |-> r.out, start |-> r.start]

record(impl, observed, length, seed, random_seed, r) ==
  IF observed
  THEN /\ call' = [NoCall EXCEPT !.op = "generate", !.impl = impl, !.observed = TRUE,
                                 !.length = length, !.seed = seed, !.random_seed = random_seed]
       /\ ret' = returned(r)
  ELSE /\ call' = [NoCall EXCEPT !.op = "generate"]
       /\ ret' = NoRet

generate ==
  \E length \in Lengths, seed \in Seeds, random_seed \in RandomSeeds, observed \in BOOLEAN :
    /\ order >= 1
    /\ ~call.observed \/ call.op # "generate"
    /\ LET r == generate_result(transitions, order, length, seed, random_seed, rng)
       IN /\ record("run_1768561810934", observed, length, seed, random_seed, r)
          /\ rng' = r.rng
          /\ transitions' = r.transitions
    /\ UNCHANGED <<order, trained, data, loaded, outside>>

generate_v2 ==
  \E length \in Lengths, seed \in Seeds, random_seed \in RandomSeeds, observed \in BOOLEAN :
    /\ order >= 1
    /\ ~call.observed \/ call.op # "generate"
    /\ LET r == generate_v2_result(transitions, order, length, seed, random_seed, rng)
       IN /\ record("run_1768562193727", observed, length, seed, random_seed, r)
          /\ rng' = r.rng
          /\ transitions' = r.transitions
    /\ UNCHANGED <<order, trained, data, loaded, outside>>

generate_batch ==
  \E length \in Lengths, seed \in Seeds \ {None}, random_seed \in RandomSeeds, observed \in BOOLEAN :
    /\ order >= 1
    /\ ~call.observed \/ call.op # "generate"
    /\ LET b == generate_batch_result(transitions, order, length, seed, random_seed, rng)
       IN /\ record("batch_1770643297744", observed, length, seed, random_seed, b.r)
          /\ rng' = b.r.rng
          /\ transitions' = b.r.transitions
          /\ contexts' = IF observed THEN b.contexts ELSE <<>>
    /\ UNCHANGED <<order, trained, data, loaded, cli, startend, server, thread>>

generate_gate ==
  \E length \in Lengths, seed \in Seeds, random_seed \in RandomSeeds, observed \in BOOLEAN :
    /\ order >= 1
    /\ ~call.observed \/ call.op # "generate"
    /\ LET r == generate_gate_result(transitions, order, length, seed, random_seed, rng)
       IN /\ record("release_gate_after_best_patch_177182", observed, length, seed, random_seed, r)
          /\ rng' = r.rng
          /\ transitions' = r.transitions
    /\ UNCHANGED <<order, trained, data, loaded, outside>>

train_sentinel ==
  \E text \in Texts :
    /\ order >= 1
    /\ Len(trained) < MaxTrains
    /\ transitions' = train_sentinel_result(transitions, order, text)
    /\ trained' = Append(trained, text)
    /\ call' = [NoCall EXCEPT !.op = "train", !.impl = "debug_schema_first_all_sanity",
                              !.observed = TRUE, !.text = text]
    /\ ret' = [NoRet EXCEPT !.status = "ok"]
    /\ contexts' = <<>>
    /\ UNCHANGED <<order, rng, data, loaded, cli, startend, server, thread>>

generate_sentinel ==
  \E length \in Lengths, seed \in Seeds, random_seed \in RandomSeeds :
    /\ order >= 1
    /\ call.op # "generate"
    /\ LET b == generate_sentinel_result(transitions, order, length, seed, random_seed, rng)
       IN /\ record("debug_schema_first_all_sanity", TRUE, length, seed, random_seed, b.r)
          /\ rng' = b.r.rng
          /\ transitions' = b.r.transitions
          /\ contexts' = b.contexts
    /\ UNCHANGED <<order, trained, data, loaded, cli, startend, server, thread>>

to_dict ==
  /\ order >= 1
  /\ data' = Some(to_dict_result(self_m))
  /\ call' = [NoCall EXCEPT !.op = "to_dict", !.observed = TRUE]
  /\ ret' = [NoRet EXCEPT !.status = "ok"]
  /\ UNCHANGED <<order, transitions, trained, rng, loaded, outside>>

(* from_dict of the structured form d *)
from_dict_of(d) ==
  LET r == from_dict_result(d)
  IN /\ loaded' = IF r.status = "ok" THEN r.model ELSE loaded
     /\ call' = [NoCall EXCEPT !.op = "from_dict", !.observed = TRUE]
     /\ ret' = [NoRet EXCEPT !.status = r.status]

(* from_dict of what to_dict returned *)
from_dict ==
  /\ data # None
  /\ from_dict_of(data[1])
  /\ UNCHANGED <<order, transitions, trained, rng, data, outside>>

(* from_dict of a structured form the caller read from a file, in a        *)
(* process that has loaded nothing yet                                     *)
from_dict_foreign ==
  \E d \in ForeignData :
    /\ data = None
    /\ loaded = None
    /\ data' = Some(d)
    /\ from_dict_of(d)
    /\ UNCHANGED <<order, transitions, trained, rng, outside>>

(* the same with the from_dict of batch_1770643297744 run_01 *)
from_dict_batch ==
  \E d \in ForeignData :
    /\ data = None
    /\ loaded = None
    /\ data' = Some(d)
    /\ LET r == from_dict_batch_result(d)
       IN /\ loaded' = IF r.status = "ok" THEN r.model ELSE loaded
          /\ call' = [NoCall EXCEPT !.op = "from_dict", !.impl = "batch_1770643297744", !.observed = TRUE]
          /\ ret' = [NoRet EXCEPT !.status = r.status]
    /\ UNCHANGED <<order, transitions, trained, rng, outside>>

(* generate called on the model from_dict returned *)
generate_loaded ==
  \E length \in Lengths, seed \in Seeds, random_seed \in RandomSeeds, observed \in BOOLEAN :
    /\ loaded # None
    /\ ~call.observed \/ call.op # "generate_loaded"
    /\ LET self == loaded[1]
           r == IF self.order[1] # "int" THEN raise(<<>>, "TypeError", rng)
                ELSE IF self.transitions[1] = "list" THEN raise(<<>>, "AttributeError", rng)
                ELSE generate_result(Deref(self.transitions), self.order[2], length, seed, random_seed, rng)
       IN /\ IF observed
             THEN /\ call' = [NoCall EXCEPT !.op = "generate_loaded", !.impl = "run_1768561810934",
                                            !.observed = TRUE, !.length = length, !.seed = seed,
                                            !.random_seed = random_seed]
                  /\ ret' = returned(r)
             ELSE /\ call' = [NoCall EXCEPT !.op = "generate_loaded"]
                  /\ ret' = NoRet
          /\ rng' = r.rng
          /\ IF self.transitions[1] = "ref"
             THEN transitions' = r.transitions /\ UNCHANGED loaded
             ELSE IF self.transitions[1] = "dict" /\ self.order[1] = "int"
                  THEN loaded' = Some([self EXCEPT !.transitions = PyDict(r.transitions)]) /\ UNCHANGED transitions
                  ELSE UNCHANGED <<transitions, loaded>>
    /\ UNCHANGED <<order, trained, data, outside>>

(* train called on the model from_dict returned; its transitions is the   *)
(* dict from_dict was given, so the loop writes into that dict.  trained   *)
(* lists the texts of all train calls of the run.                          *)
train_loaded ==
  \E text \in Texts :
    /\ loaded # None
    /\ Len(trained) < MaxTrains
    /\ LET self == loaded[1]
       IN IF self.order[1] # "int"
          THEN /\ ret' = [NoRet EXCEPT !.status = "TypeError"]
               /\ UNCHANGED <<transitions, loaded>>
          ELSE IF self.transitions[1] = "ref"
          THEN /\ transitions' = train_result(transitions, self.order[2], text)
               /\ ret' = [NoRet EXCEPT !.status = "ok"]
               /\ UNCHANGED loaded
          ELSE IF self.transitions[1] = "dict"
          THEN /\ loaded' = Some([self EXCEPT !.transitions = PyDict(train_result(self.transitions[2], self.order[2], text))])
               /\ ret' = [NoRet EXCEPT !.status = "ok"]
               /\ UNCHANGED transitions
          ELSE /\ ret' = [NoRet EXCEPT !.status = IF Len(text) > self.order[2] THEN "TypeError" ELSE "ok"]
               /\ UNCHANGED <<transitions, loaded>>
    /\ trained' = Append(trained, text)
    /\ call' = [NoCall EXCEPT !.op = "train_loaded", !.observed = TRUE, !.text = text]
    /\ UNCHANGED <<order, rng, data, outside>>

(* main(['train', '--input', ..., '--model-out', ..., '--order', o]) in a  *)
(* directory where the two files are as chosen; before keeps the output    *)
(* file as the command found it                                            *)
cli_main ==
  \E o \in Orders, input \in InputFiles, model_out \in ModelFiles :
    /\ cli.pc = "shell"
    /\ cli' = [NoCommand EXCEPT !.pc = "read", !.order = o, !.input = input,
                                !.model_out = model_out, !.before = model_out]
    /\ UNCHANGED <<inside, contexts, startend, server, thread>>

(* the corpus read only after the output file was opened for writing *)
cli_read_output_first ==
  /\ cli.pc = "read"
  /\ IF cli.input = None
     THEN cli' = [cli EXCEPT !.pc = "exit", !.exit = "FileNotFoundError", !.model_out = Some(<<>>)]
     ELSE IF cli.input = Some(Undecodable)
     THEN cli' = [cli EXCEPT !.pc = "exit", !.exit = "UnicodeDecodeError", !.model_out = Some(<<>>)]
     ELSE cli' = [cli EXCEPT !.pc = "construct", !.text = cli.input[1], !.model_out = Some(<<>>)]
  /\ UNCHANGED <<inside, contexts, startend, server, thread>>

(* with open(args.input, 'r', encoding='utf-8') as f: text = f.read() *)
cli_read ==
  /\ cli.pc = "read"
  /\ IF cli.input = None
     THEN cli' = [cli EXCEPT !.pc = "exit", !.exit = "FileNotFoundError"]
     ELSE IF cli.input = Some(Undecodable)
     THEN cli' = [cli EXCEPT !.pc = "exit", !.exit = "UnicodeDecodeError"]
     ELSE cli' = [cli EXCEPT !.pc = "construct", !.text = cli.input[1]]
  /\ UNCHANGED <<inside, contexts, startend, server, thread>>

(* mc = MarkovChain(order=args.order) *)
cli_construct ==
  /\ cli.pc = "construct"
  /\ IF init_check(PyInt(cli.order)) # "ok"
     THEN cli' = [cli EXCEPT !.pc = "exit", !.exit = init_check(PyInt(cli.order))]
     ELSE cli' = [cli EXCEPT !.pc = "train", !.mc = Some([order |-> cli.order, transitions |-> <<>>])]
  /\ UNCHANGED <<inside, contexts, startend, server, thread>>

(* mc.train(text) *)
cli_train ==
  /\ cli.pc = "train"
  /\ cli' = [cli EXCEPT !.pc = "open",
                        !.mc = Some([cli.mc[1] EXCEPT !.transitions = train_result(<<>>, cli.order, cli.text)])]
  /\ UNCHANGED <<inside, contexts, startend, server, thread>>

(* open(args.model_out, 'w'): the file is created or emptied, or the open  *)
(* is refused and the file is left as it is                                *)
cli_open ==
  \E refused \in BOOLEAN :
    /\ cli.pc = "open"
    /\ IF refused
       THEN cli' = [cli EXCEPT !.pc = "exit", !.exit = "OSError"]
       ELSE cli' = [cli EXCEPT !.pc = "dump", !.model_out = Some(<<>>)]
    /\ UNCHANGED <<inside, contexts, startend, server, thread>>

(* json.dump(mc.to_dict(), f); return 0 *)
cli_dump ==
  /\ cli.pc = "dump"
  /\ cli' = [cli EXCEPT !.pc = "exit", !.exit = "0",
                        !.model_out = Some(<<cli.mc[1].order, cli.mc[1].transitions>>)]
  /\ UNCHANGED <<inside, contexts, startend, server, thread>>

add_text ==
  \E text \in Texts :
    /\ startend.pc = "idle"
    /\ startend.added < MaxTrains
    /\ startend' = [startend EXCEPT !.chain = add_text_result(startend.chain, text), !.added = @ + 1]
    /\ UNCHANGED <<inside, contexts, cli, server, thread>>

(* generate_text(length) up to the while: text = ""; current_word = random.choice(...) *)
generate_text ==
  \E length \in Lengths :
    /\ startend.pc = "idle"
    /\ IF Len(startend.chain) = 0
       THEN /\ startend' = [startend EXCEPT !.pc = "raised", !.length = length, !.error = "IndexError"]
            /\ UNCHANGED rng
       ELSE /\ startend' = [startend EXCEPT !.pc = "while", !.length = length, !.text = <<>>,
                                            !.current_word = choice(rng, Keys(startend.chain))]
            /\ rng' = advance(rng)
    /\ UNCHANGED <<order, transitions, trained, call, ret, data, loaded, contexts, cli, server, thread>>

(* one test of the while condition and, when it holds, one pass of the body; *)
(* return text + "END" when it does not                                    *)
generate_text_while ==
  /\ startend.pc = "while"
  /\ IF Len(startend.text) < startend.length
     THEN IF startend.current_word # END
          THEN /\ startend' = [startend EXCEPT !.text = @ \o list(startend.current_word),
                                 !.current_word = choice(rng, Get(startend.chain, startend.current_word, <<>>))]
               /\ rng' = advance(rng)
          ELSE UNCHANGED <<startend, rng>>
     ELSE /\ startend' = [startend EXCEPT !.pc = "returned", !.result = startend.text \o list(END)]
          /\ UNCHANGED rng
  /\ UNCHANGED <<order, transitions, trained, call, ret, data, loaded, contexts, cli, server, thread>>

(* thread t alone takes a step to the record next, which may change the   *)
(* globals                                                                 *)
step(t, next, globals) ==
  /\ thread' = [thread EXCEPT ![t] = next]
  /\ server' = globals
  /\ UNCHANGED <<inside, contexts, cli, startend>>

(* a POST to /api/generate or /api/chat; an empty prompt to /api/generate  *)
(* is answered 400, anything else goes on to generate_response and         *)
(* load_model                                                              *)
api_request(t) ==
  \E route \in {"generate", "chat"}, stream \in BOOLEAN, prompt \in BOOLEAN :
    /\ thread[t].pc = "idle"
    /\ IF route = "generate" /\ ~prompt
       THEN step(t, [Idle EXCEPT !.pc = "closed", !.route = route, !.status = 400], server)
       ELSE step(t, [Idle EXCEPT !.pc = "line66", !.route = route, !.stream = stream, !.status = 200], server)

(* if config["loaded"]: return True *)
load_model_check(t) ==
  /\ thread[t].pc = "line66"
  /\ IF server.loaded
     THEN step(t, [thread[t] EXCEPT !.pc = "generate_response", !.load_model = "True",
                                    !.patched = server.patches], server)
     ELSE step(t, [thread[t] EXCEPT !.pc = "line69"], server)

(* with model_lock entered whoever holds the lock *)
load_model_acquire_unlocked(t) ==
  /\ thread[t].pc = "line69"
  /\ step(t, [thread[t] EXCEPT !.pc = "line70"], [server EXCEPT !.model_lock = Some(t)])

(* with model_lock: *)
load_model_acquire(t) ==
  /\ thread[t].pc = "line69"
  /\ server.model_lock = None
  /\ step(t, [thread[t] EXCEPT !.pc = "line70"], [server EXCEPT !.model_lock = Some(t)])

(* if config["loaded"]: return True, inside the lock *)
load_model_check_again(t) ==
  /\ thread[t].pc = "line70"
  /\ IF server.loaded
     THEN step(t, [thread[t] EXCEPT !.pc = "generate_response", !.load_model = "True",
                                    !.patched = server.patches],
               [server EXCEPT !.model_lock = None])
     ELSE step(t, [thread[t] EXCEPT !.pc = "from_pretrained"], server)

(* lines 72-107: airllm_model = AutoModel.from_pretrained(...), with its   *)
(* retry; it returns a model or raises into the except clause of line 385  *)
load_model_from_pretrained(t) ==
  \E raises \in BOOLEAN :
    /\ thread[t].pc = "from_pretrained"
    /\ server.loads + 1 \in LoadCounts
    /\ IF raises
       THEN step(t, [thread[t] EXCEPT !.pc = "line387"], server)
       ELSE step(t, [thread[t] EXCEPT !.pc = "line108"],
                 [server EXCEPT !.airllm_model = Some("model"), !.loads = @ + 1])

(* airllm_tokenizer = airllm_model.tokenizer *)
load_model_tokenizer(t) ==
  /\ thread[t].pc = "line108"
  /\ step(t, [thread[t] EXCEPT !.pc = "line109"], [server EXCEPT !.airllm_tokenizer = Some("tokenizer")])

(* config["loaded"] = True *)
load_model_set_loaded(t) ==
  /\ thread[t].pc = "line109"
  /\ step(t, [thread[t] EXCEPT !.pc = "patch"], [server EXCEPT !.loaded = TRUE])

(* the next patch of lines 111-365 *)
load_model_patch(t) ==
  /\ thread[t].pc = "patch"
  /\ IF Len(server.patches) < Len(Patches)
     THEN step(t, thread[t], [server EXCEPT !.patches = Append(@, Patches[Len(@) + 1])])
     ELSE step(t, [thread[t] EXCEPT !.pc = "line383"], server)

(* return True, leaving the with block *)
load_model_return_true(t) ==
  /\ thread[t].pc = "line383"
  /\ step(t, [thread[t] EXCEPT !.pc = "generate_response", !.load_model = "True",
                               !.patched = server.patches],
          [server EXCEPT !.model_lock = None])

(* except Exception: return False, leaving the with block *)
load_model_return_false(t) ==
  /\ thread[t].pc = "line387"
  /\ step(t, [thread[t] EXCEPT !.pc = "generate_response", !.load_model = "False"],
          [server EXCEPT !.model_lock = None])

(* generate_response after load_model: the error text when it returned     *)
(* False, else the output of the model or the text of the exception; then  *)
(* the whole response in one record, or words = response.split()           *)
generate_response(t) ==
  \E output \in Outputs \cup {GenerationErrorText} :
    /\ thread[t].pc = "generate_response"
    /\ LET response == IF thread[t].load_model = "False" THEN NotLoadedText ELSE output
       IN IF thread[t].stream
          THEN step(t, [thread[t] EXCEPT !.pc = "yield", !.response = response,
                                         !.words = split(response), !.i = 0], server)
          ELSE step(t, [thread[t] EXCEPT !.pc = "closed", !.response = response,
                                         !.records = <<[content |-> response, done |-> TRUE]>>], server)

(* the record with done on the last chunk and no record after it *)
stream_yield_done_on_last(t) ==
  /\ thread[t].pc = "yield"
  /\ IF thread[t].i < Len(thread[t].words) - 1
     THEN step(t, [thread[t] EXCEPT !.i = @ + 1,
                     !.records = Append(@, [content |-> chunk(thread[t].words, thread[t].i), done |-> FALSE])],
               server)
     ELSE IF thread[t].i < Len(thread[t].words)
          THEN step(t, [thread[t] EXCEPT !.i = @ + 1, !.pc = "closed",
                          !.records = Append(@, [content |-> chunk(thread[t].words, thread[t].i), done |-> TRUE])],
                    server)
          ELSE step(t, [thread[t] EXCEPT !.pc = "closed"], server)

(* the next yield of generate() in api_generate / api_chat: a chunk of     *)
(* generate_stream with done False, and after the last the record with     *)
(* done True                                                               *)
stream_yield(t) ==
  /\ thread[t].pc = "yield"
  /\ IF thread[t].i < Len(thread[t].words)
     THEN step(t, [thread[t] EXCEPT !.i = @ + 1,
                     !.records = Append(@, [content |-> chunk(thread[t].words, thread[t].i), done |-> FALSE])],
               server)
     ELSE step(t, [thread[t] EXCEPT !.pc = "closed",
                     !.records = Append(@, [content |-> <<>>, done |-> TRUE])],
               server)

(* the response is complete and the thread takes the next request *)
api_respond(t) ==
  /\ thread[t].pc = "closed"
  /\ step(t, Idle, server)

(* construction and training *)
Next == construct \/ train

Spec == Init /\ [][Next]_vars

(* one training text, then generation *)
NextGen == construct \/ train_first \/ generate \/ generate_v2

SpecGen == Init /\ [][NextGen]_vars

(* training and the structured form; no action of NextDict reads or writes *)
(* the generator, so one of its states stands for all                      *)
NextDict == construct \/ train \/ to_dict \/ from_dict

InitDict == Init /\ rng = [i \in 1..3 |-> 0]

SpecDict == InitDict /\ [][NextDict]_vars

(* one training text, the structured form and back, then generation *)
NextLoaded == construct \/ train_first \/ to_dict \/ from_dict \/ generate_loaded

SpecLoaded == Init /\ [][NextLoaded]_vars

(* one training text, then generation by batch_1770643297744 run_01 *)
NextBatch == construct \/ train_first \/ generate_batch

SpecBatch == Init /\ [][NextBatch]_vars

(* one training text, then generation by release_gate_after_best_patch run_09 *)
NextGate == construct \/ train_first \/ generate_gate

SpecGate == Init /\ [][NextGate]_vars

(* structured forms read from a file by batch_1770643297744 run_01 *)
NextForeignBatch == construct \/ train_first \/ from_dict_batch

SpecForeignBatch == Init /\ [][NextForeignBatch]_vars

(* a model, its structured form and the model made from it, each trained on *)
NextShared == construct \/ train \/ to_dict \/ from_dict \/ train_loaded

SpecShared == InitDict /\ [][NextShared]_vars

(* training and generation with the end-of-text terminator *)
NextSentinel == construct \/ train_sentinel \/ generate_sentinel

SpecSentinel == Init /\ [][NextSentinel]_vars

(* one run of the train command *)
NextCli == cli_main \/ cli_read \/ cli_construct \/ cli_train \/ cli_open \/ cli_dump

SpecCli == InitDict /\ [][NextCli]_vars

(* the START/END chain: texts added, then one call of generate_text that   *)
(* the interpreter keeps running                                           *)
NextStartEnd == add_text \/ generate_text \/ generate_text_while

SpecStartEnd == Init /\ [][NextStartEnd]_vars /\ WF_vars(generate_text_while)

(* the request threads of the inference server *)
NextServer ==
  \E t \in Threads :
    \/ api_request(t)
    \/ load_model_check(t)
    \/ load_model_acquire(t)
    \/ load_model_check_again(t)
    \/ load_model_from_pretrained(t)
    \/ load_model_tokenizer(t)
    \/ load_model_set_loaded(t)
    \/ load_model_patch(t)
    \/ load_model_return_true(t)
    \/ load_model_return_false(t)
    \/ generate_response(t)
    \/ stream_yield(t)
    \/ api_respond(t)

SpecServer == InitDict /\ [][NextServer]_vars

(* structured forms read from a file *)
NextForeign == construct \/ train_first \/ from_dict_foreign

SpecForeign == Init /\ [][NextForeign]_vars

(***************************************************************************)
(* Reference definitions the properties are stated with                    *)
(***************************************************************************)
Contexts(k) == [1..k -> Chars]
Count(tr, c, n) == Get(Get(tr, c, <<>>), n, 0)
Windows(text, k) == 0..(Len(text) - k - 1)
RefCount(text, k, c, n) == Cardinality({i \in Windows(text, k) : SubSeq(text, i + 1, i + k) = c /\ text[i + k + 1] = n})
Occurrences(text, k, c) == Cardinality({i \in Windows(text, k) : SubSeq(text, i + 1, i + k) = c})
UniqueKeys(d) == \A i, j \in 1..Len(d) : d[i][1] = d[j][1] => i = j

(* every stored entry is a context of k characters with at least one       *)
(* continuation, each counted at least once                                *)
NoZeroEntries(tr, k) ==
  /\ UniqueKeys(tr)
  /\ \A i \in 1..Len(tr) :
       /\ tr[i][1] \in Contexts(k)
       /\ Len(tr[i][2]) >= 1
       /\ UniqueKeys(tr[i][2])
       /\ \A j \in 1..Len(tr[i][2]) : tr[i][2][j][1] \in Chars /\ tr[i][2][j][2] >= 1

Prefix(s, n) == SubSeq(s, 1, IF n < Len(s) THEN n ELSE Len(s))

Observed(impl) == call.op = "generate" /\ call.observed /\ call.impl = impl
GenV1 == Observed("run_1768561810934")
GenV2 == Observed("run_1768562193727")

(* C1: after construct(k) and one train(text) on the empty model the table *)
(* holds, for every context c and character n, the number of windows of    *)
(* text that read c followed by n, and nothing else: no entry for a pair   *)
(* that never occurs; order 2 and "abcd" give {ab: {c: 1}, bc: {d: 1}}.    *)
C1_TrainIsReferenceCount ==
  (call.op = "train" /\ Len(trained) = 1) =>
    /\ \A c \in Contexts(order), n \in Chars :
         Count(transitions, c, n) = RefCount(trained[1], order, c, n)
    /\ NoZeroEntries(transitions, order)
    /\ (order = 2 /\ trained[1] = ExampleText) =>
         transitions = << <<<<"a", "b">>, << <<"c", 1>> >> >>, <<<<"b", "c">>, << <<"d", 1>> >> >> >>

C1_Witness ==
  /\ call.op = "train"
  /\ order = 2
  /\ trained = <<ExampleText>>
  /\ Len(transitions) = 2

(* C2: training is additive: after train(t1) and train(t2) every count is  *)
(* the count of t1 alone plus the count of t2 alone, no window spans the   *)
(* end of t1 and the start of t2, and the counts of a key sum to the       *)
(* occurrences of that context followed by a character in t1 and in t2.    *)
C2_TrainIsAdditive ==
  (call.op = "train" /\ Len(trained) = 2) =>
    /\ \A c \in Contexts(order), n \in Chars :
         Count(transitions, c, n) = RefCount(trained[1], order, c, n) + RefCount(trained[2], order, c, n)
    /\ NoZeroEntries(transitions, order)
    /\ \A i \in 1..Len(transitions) :
         sum(Values(transitions[i][2])) =
           Occurrences(trained[1], order, transitions[i][1]) + Occurrences(trained[2], order, transitions[i][1])

(* both texts count the same pair, and the two texts joined would count it once more *)
C2_Witness ==
  /\ call.op = "train"
  /\ Len(trained) = 2
  /\ \E c \in Contexts(order), n \in Chars :
       /\ RefCount(trained[1], order, c, n) >= 1
       /\ RefCount(trained[2], order, c, n) >= 1
       /\ RefCount(trained[1] \o trained[2], order, c, n) > Count(transitions, c, n)

(* C3: a generate call with a random_seed returns the same string whatever *)
(* state the process-wide generator was left in by the calls before it.    *)
C3_Deterministic ==
  (GenV1 /\ call.random_seed # None) =>
    \A g \in RngStates :
      returned(generate_result(transitions, order, call.length, call.seed, call.random_seed, g)) = ret

(* a seeded call with no seed string whose walk drew from two keys or two continuations *)
C3_Witness ==
  /\ GenV1
  /\ call.random_seed = Some(0)
  /\ call.seed = None
  /\ ret.status = "ok"
  /\ Len(ret.out) > order
  /\ Len(transitions) >= 2

(* C4: generate on a trained model returns at most `length` characters,    *)
(* and for length <= order the initial context clipped to `length`.        *)
C4_AtMostLength ==
  (call.op = "generate" /\ call.observed /\ Len(transitions) > 0 /\ ret.status = "ok") =>
    /\ Len(ret.out) <= call.length
    /\ call.length <= order => ret.out = Prefix(ret.start, call.length)

(* C5: when the context is absent from the table before the output has     *)
(* `length` characters, the walk stops there: the call returns normally    *)
(* with a shorter string and nothing is appended after the dead end.       *)
C5_Truncation ==
  GenV1 =>
    /\ (Len(transitions) > 0 \/ (call.seed # None /\ Len(call.seed[1]) = order)) => ret.status = "ok"
    /\ ret.status = "ok" =>
         \A j \in order..Len(ret.out) :
           (j < call.length /\ ~Has(transitions, SubSeq(ret.out, j - order + 1, j))) =>
             Len(ret.out) = j

(* the walk appended a character and then met a dead end *)
C5_Witness ==
  /\ GenV1
  /\ ret.status = "ok"
  /\ Len(ret.out) > order
  /\ Len(ret.out) < call.length
  /\ ~Has(transitions, SubSeq(ret.out, Len(ret.out) - order + 1, Len(ret.out)))

(* C6: generate on a model with an empty table fails with the untrained    *)
(* model error, whatever the length, seed and random_seed.                 *)
C6_UntrainedModelError ==
  (GenV1 /\ Len(transitions) = 0) => ret.status = "UntrainedModel"

(* C7: a seed of `order` characters that is a key of the table is the      *)
(* starting context, and the output (length >= order) begins with it.      *)
C7_SeedIsStart ==
  (call.op = "generate" /\ call.observed /\ call.seed # None) =>
    ((Len(call.seed[1]) = order /\ Has(transitions, call.seed[1])) =>
       /\ ret.status = "ok"
       /\ ret.start = call.seed[1]
       /\ call.length >= order => Prefix(ret.out, order) = call.seed[1])

(* a table of two keys, the seed the second of them, and a walk that went on *)
C7_Witness ==
  /\ GenV1
  /\ call.seed # None
  /\ Len(transitions) >= 2
  /\ transitions[2][1] = call.seed[1]
  /\ Len(ret.out) > order

(* C8: with no seed, a seed of another length or a seed that is no key,    *)
(* the first `order` characters of the output are a key of the table.      *)
C8_AbsentSeedStartsAtKey ==
  (GenV1 /\ Len(transitions) > 0 /\ ret.status = "ok") =>
    ((call.seed = None \/ Len(call.seed[1]) # order \/ ~Has(transitions, call.seed[1])) =>
       /\ Has(transitions, ret.start)
       /\ Has(transitions, Prefix(ret.out, order)))

(* C9: every character the walk appends is a recorded continuation of the  *)
(* `order` characters before it.                                           *)
C9_RecordedContinuations ==
  (GenV1 /\ ret.status = "ok") =>
    \A j \in (order + 1)..Len(ret.out) :
      Count(transitions, SubSeq(ret.out, j - order, j - 1), ret.out[j]) >= 1

(* two appended characters *)
C9_Witness ==
  /\ GenV1
  /\ ret.status = "ok"
  /\ Len(ret.out) >= order + 2

(* C10: in the cumulative-count sampler, for a context whose counts sum to *)
(* T the draw is in 1..T, every draw selects one candidate, and candidate  *)
(* n is selected by exactly table[context][n] of the T draws.              *)
C10_WeightedSampling ==
  \A i \in 1..Len(transitions) :
    LET options == transitions[i][2]
        T == sum(Values(options))
    IN /\ \A g \in RngStates : randint(g, 1, T) \in 1..T
       /\ \A r \in 1..T : select(options, r, 1, 0) \in 1..Len(options)
       /\ \A j \in 1..Len(options) :
            Cardinality({r \in 1..T : select(options, r, 1, 0) = j}) = options[j][2]

(* a context with two continuations, one of them counted twice *)
C10_Witness ==
  \E i \in 1..Len(transitions) :
    /\ Len(transitions[i][2]) >= 2
    /\ \E j \in 1..Len(transitions[i][2]) : transitions[i][2][j][2] >= 2

(* C13: construct(order) fails with the invalid-order error (ValueError)   *)
(* and returns no model for every order <= 0; for every order >= 1 it      *)
(* returns a model of that order with an empty table.                      *)
C13_ConstructValidatesOrder ==
  call.op = "construct" =>
    IF call.order <= 0
    THEN ret.status = "ValueError" /\ order = 0 /\ transitions = <<>> /\ trained = <<>>
    ELSE ret.status = "ok" /\ order = call.order /\ transitions = <<>>

C13_Witness ==
  /\ call.op = "construct"
  /\ call.order = 0
  /\ ret.status = "ValueError"

(* C14: after any sequence of train calls, texts shorter than the order    *)
(* included, every key of the table has exactly `order` characters.        *)
C14_KeysHaveOrderLength ==
  order >= 1 => \A i \in 1..Len(transitions) : Len(transitions[i][1]) = order

(* a text shorter than the order and a text that records a transition *)
C14_Witness ==
  /\ order = 2
  /\ Len(trained) = 2
  /\ \E i \in 1..2 : Len(trained[i]) < order
  /\ Len(transitions) >= 1

(* C15: after any sequence of train calls every stored count is >= 1 and   *)
(* no key maps to an empty mapping.                                        *)
C15_CountsPositive ==
  \A i \in 1..Len(transitions) :
    /\ Len(transitions[i][2]) >= 1
    /\ \A j \in 1..Len(transitions[i][2]) : transitions[i][2][j][2] >= 1

(* the last window of a trained text is a context with no entry *)
C15_Witness ==
  /\ Len(trained) >= 1
  /\ Len(transitions) >= 1
  /\ \E t \in 1..Len(trained) :
       /\ Len(trained[t]) > order
       /\ ~Has(transitions, SubSeq(trained[t], Len(trained[t]) - order + 1, Len(trained[t])))

(* C16: train(text) with len(text) < order + 1 returns without error and   *)
(* leaves the table as it was before the call.                             *)
C16_ShortTextNoTransition ==
  [][(call'.op = "train" /\ Len(trained') = Len(trained) + 1 /\ Len(call'.text) < order + 1)
       => (transitions' = transitions /\ ret'.status = "ok")]_vars

(* a text of exactly `order` characters trained on a table that has entries *)
C16_Witness ==
  /\ call.op = "train"
  /\ Len(trained) = 2
  /\ Len(call.text) = order
  /\ Len(transitions) >= 1

(* C18 as stated: order 1 and "aba" give {a: {b: 1}} and no entry for b.   *)
C18_OnlyFirstWindow ==
  (call.op = "train" /\ order = 1 /\ trained = << <<"a", "b", "a">> >>) =>
    transitions = << <<<<"a">>, << <<"b", 1>> >> >> >>

(* C18: training a fresh order-1 model on "aba" yields {a: {b: 1},         *)
(* b: {a: 1}}: the windows are i = 0 and i = 1, so b has an entry.         *)
C18_BothWindows ==
  (call.op = "train" /\ order = 1 /\ trained = << <<"a", "b", "a">> >>) =>
    transitions = << <<<<"a">>, << <<"b", 1>> >> >>, <<<<"b">>, << <<"a", 1>> >> >> >>

C18_Witness ==
  /\ call.op = "train"
  /\ order = 1
  /\ trained = << <<"a", "b", "a">> >>
  /\ Has(transitions, <<"b">>)

(* the contexts a walk from context c can come to *)
Continuations(tr, c) == {Get(tr, c, <<>>)[j][1] : j \in 1..Len(Get(tr, c, <<>>))}
Successors(tr, c) == {SubSeq(c, 2, Len(c)) \o <<n>> : n \in Continuations(tr, c)}
RECURSIVE Reach(_, _)
Reach(tr, S) ==
  LET more == S \cup UNION {Successors(tr, c) : c \in S}
  IN IF more = S THEN S ELSE Reach(tr, more)
NoDeadEnd(tr, c) == \A x \in Reach(tr, {c}) : Has(tr, x)

(* C19: when every context the walk can reach from the initial context is  *)
(* a key of the table, generate(length) with length >= order returns       *)
(* exactly `length` characters; so does a model trained on "aba" with      *)
(* order 1 and seed "a", for every length >= 1.                            *)
C19_ExactLength ==
  GenV1 =>
    /\ (ret.status = "ok" /\ call.length >= order /\ NoDeadEnd(transitions, ret.start)) =>
         Len(ret.out) = call.length
    /\ (order = 1 /\ trained = << <<"a", "b", "a">> >> /\ call.seed = Some(<<"a">>) /\ call.length >= 1) =>
         (ret.status = "ok" /\ Len(ret.out) = call.length)

C19_Witness ==
  /\ GenV1
  /\ order = 1
  /\ trained = << <<"a", "b", "a">> >>
  /\ call.seed = Some(<<"a">>)
  /\ call.length = 3
  /\ ret.out = <<"a", "b", "a">>

(* C20: a generate call, whether it returns a full string, a truncated     *)
(* string or fails, leaves the order and the table of the model as they    *)
(* were; the lookup of an absent context does not insert it.               *)
C20_GenerateReadOnly ==
  [][call'.op = "generate" => (order' = order /\ transitions' = transitions)]_vars

(* a call of the second variant that looked up an absent context *)
C20_Witness ==
  /\ GenV2
  /\ ret.status = "ok"
  /\ Len(ret.out) >= order
  /\ Len(ret.out) < call.length
  /\ ~Has(transitions, SubSeq(ret.out, Len(ret.out) - order + 1, Len(ret.out)))

(***************************************************************************)
(* The structured form.                                                    *)
(***************************************************************************)
(* a table as the mapping it is: insertion order left aside *)
AsMapping(tbl) ==
  { <<tbl[i][1], { tbl[i][2][j] : j \in 1..Len(tbl[i][2]) }>> : i \in 1..Len(tbl) }

(* C11: from_dict(to_dict(m)) returns a model with the order of m and a    *)
(* table equal to the table of m, and to_dict of that model equals         *)
(* to_dict(m).                                                             *)
C11_RoundTrip ==
  call.op = "from_dict" =>
    /\ ret.status = "ok"
    /\ loaded # None
    /\ loaded[1].order[1] = "int"
    /\ loaded[1].order[2] = order
    /\ loaded[1].transitions[1] \in {"ref", "dict"}
    /\ AsMapping(Deref(loaded[1].transitions)) = AsMapping(transitions)
    /\ LET again == to_dict_result(loaded[1])
       IN /\ Keys(again) = Keys(data[1])
          /\ Get(again, "order", None) = Get(data[1], "order", None)
          /\ AsMapping(Deref(Get(again, "transitions", None)))
               = AsMapping(Deref(Get(data[1], "transitions", None)))

C11_Witness ==
  /\ call.op = "from_dict"
  /\ Len(trained) = MaxTrains
  /\ Len(transitions) >= 2
  /\ loaded # None

(* C12: with the same length, seed and random seed given, generate on      *)
(* from_dict(to_dict(m)) returns what generate on m returns, whatever the  *)
(* state the generator is in, the start being chosen among the keys when   *)
(* no seed is given.                                                       *)
C12_LoadedGeneratesTheSame ==
  (call.op = "generate_loaded" /\ call.observed /\ call.random_seed # None) =>
    \A g \in RngStates :
      ret = returned(generate_result(transitions, order, call.length, call.seed, call.random_seed, g))

C12_Witness ==
  /\ call.op = "generate_loaded"
  /\ call.observed
  /\ call.random_seed # None
  /\ call.seed = None
  /\ Len(transitions) >= 2
  /\ ret.status = "ok"
  /\ Len(ret.out) > order

(* a structured form from_dict is said to refuse *)
Malformed(d) ==
  \/ ~Has(d, "order")
  \/ Get(d, "order", None)[1] # "int"
  \/ ~Has(d, "transitions")
  \/ Get(d, "transitions", None)[1] \notin {"ref", "dict"}

(* C17: from_dict of a structured form whose order is missing or not an    *)
(* integer, or whose transitions is not a mapping, fails and returns no    *)
(* model; any exception is taken for the malformed-model error.            *)
C17_MalformedRejected ==
  (call.op = "from_dict" /\ data # None /\ Malformed(data[1])) =>
    (ret.status # "ok" /\ loaded = None)

(***************************************************************************)
(* The other generations of the program                                    *)
(***************************************************************************)
GenBatch == Observed("batch_1770643297744")

(* C21: in the generate of batch_1770643297744 run_01, with a seed of      *)
(* length order, every value of the context has exactly order characters,  *)
(* and each is the one before with its first character dropped and the     *)
(* appended character added, for every order >= 1.                         *)
C21_SlidingWindow ==
  (GenBatch /\ Len(call.seed[1]) = order) =>
    \A i \in 1..Len(contexts) :
      /\ Len(contexts[i]) = order
      /\ i > 1 => contexts[i] = SubSeq(contexts[i - 1], 2, order) \o <<ret.out[i - 1]>>

GenGate == Observed("release_gate_after_best_patch_177182")

(* C22: in the generate of release_gate_after_best_patch run_09, on a      *)
(* model with a non-empty table the call returns a string, truncated when  *)
(* the walk reaches a context with no recorded continuation: it never      *)
(* fails.                                                                  *)
C22_TruncatesAtDeadEnd ==
  (GenGate /\ Len(transitions) > 0) => ret.status = "ok"

(* the table the structured form holds, and the table of the model         *)
(* from_dict returned                                                      *)
TableOfData == IF data = None THEN <<>> ELSE Deref(Get(data[1], "transitions", None))
TableOfLoaded == IF loaded = None THEN <<>> ELSE Deref(loaded[1].transitions)

(* C23: after d = to_dict(m) and m2 = from_dict(d), a train call on m2     *)
(* leaves the table of m and d unchanged, and a train call on m leaves d   *)
(* and m2 unchanged.                                                       *)
C23_NoSharedState ==
  [][(data # None /\ loaded # None) =>
       /\ call'.op = "train_loaded" => (transitions' = transitions /\ TableOfData' = TableOfData)
       /\ call'.op = "train" => (TableOfData' = TableOfData /\ TableOfLoaded' = TableOfLoaded)]_vars

(* C24: in batch_1770643297744 run_01, from_dict of data whose order is    *)
(* <= 0 fails with the invalid-order error and returns no model, so every  *)
(* model an operation returns has order >= 1.                              *)
C24_LoadedOrderPositive ==
  (/\ call.op = "from_dict"
   /\ call.impl = "batch_1770643297744"
   /\ Has(data[1], "order")
   /\ Get(data[1], "order", None)[1] = "int"
   /\ Get(data[1], "order", None)[2] <= 0) =>
    (ret.status = "ValueError" /\ loaded = None)

GenSentinel == Observed("debug_schema_first_all_sanity")

(* every continuation of a key other than the terminator leads to a key *)
Closed(tr) ==
  \A i \in 1..Len(tr) : \A j \in 1..Len(tr[i][2]) :
    tr[i][2][j][1] # Terminator =>
      Has(tr, SubSeq(tr[i][1], 2, Len(tr[i][1])) \o <<tr[i][2][j][1]>>)

(* C25: with the end-of-text terminator, after any sequence of train calls *)
(* the next context of every key and every continuation other than '' is a *)
(* key, and a generate call whose first context is a key looks up keys     *)
(* only.                                                                   *)
C25_ClosedUnderWalk ==
  /\ Closed(transitions)
  /\ (GenSentinel /\ Len(contexts) > 0 /\ Has(transitions, contexts[1])) =>
       /\ ret.status = "ok"
       /\ \A i \in 1..Len(contexts) : Has(transitions, contexts[i])

C25_Witness ==
  /\ GenSentinel
  /\ Len(trained) = MaxTrains
  /\ Len(contexts) >= 2
  /\ Has(transitions, contexts[1])
  /\ Len(ret.out) < call.length

C27_GenerateTextTerminates ==
  (startend.pc = "while" /\ startend.added > 0) ~> (startend.pc = "returned")

(***************************************************************************)
(* The inference server                                                    *)
(***************************************************************************)
(* C28: under any interleaving of the request threads, at most one thread  *)
(* is inside the load body, the model is loaded successfully at most once, *)
(* no thread is at from_pretrained once config['loaded'] is True, and a    *)
(* load that failed returns with config['loaded'] False.                   *)
C28_LoadOnce ==
  /\ Cardinality({t \in Threads : thread[t].pc \in LoadBody}) <= 1
  /\ server.loads <= 1
  /\ server.loaded => server.loads = 1
  /\ \A t \in Threads : thread[t].pc \in {"from_pretrained", "line387"} => ~server.loaded

C28_Witness ==
  /\ server.loaded
  /\ thread["t1"].pc = "line70"
  /\ thread["t2"].load_model = "True"
  /\ thread["t2"].patched = Patches

(* C29: when load_model has returned True to a thread, the model and the   *)
(* tokenizer are assigned and every patch of the load body is installed,   *)
(* so no request starts generation between config['loaded'] = True and the *)
(* end of the patches.                                                     *)
C29_PatchedBeforeTrue ==
  \A t \in Threads :
    thread[t].load_model = "True" =>
      /\ server.airllm_model # None
      /\ server.airllm_tokenizer # None
      /\ thread[t].patched = Patches

(* C30: in a streaming response the records come in order: every chunk     *)
(* record has done = false, the one record with done = true is the last,   *)
(* and a stream that has ended has it, also for an empty response and for  *)
(* an error text.                                                          *)
C30_StreamEndsWithDone ==
  \A t \in Threads :
    thread[t].stream =>
      LET records == thread[t].records
      IN /\ \A i \in 1..Len(records) :
              /\ records[i].done => (i = Len(records) /\ thread[t].pc = "closed")
              /\ ~records[i].done => records[i].content = chunk(split(thread[t].response), i - 1)
         /\ thread[t].pc = "closed" =>
              /\ Len(records) = Len(split(thread[t].response)) + 1
              /\ records[Len(records)].done

C30_Witness ==
  /\ thread["t1"].stream /\ thread["t1"].pc = "closed"
  /\ thread["t1"].response = NotLoadedText /\ Len(thread["t1"].records) = 5
  /\ thread["t2"].stream /\ thread["t2"].pc = "closed"
  /\ thread["t2"].load_model = "True" /\ Len(thread["t2"].records) = 1

====
